---- MODULE Spec2Model ----
(***************************************************************************)
(* Model of setup_namespacev3.py: a command-line tool that reconciles one  *)
(* Linux network namespace (ha-test), one interface (ha-0-0), one address  *)
(* and one default route, and persists them in a systemd unit.             *)
(*                                                                         *)
(* The program keeps no state of its own between commands: its state is    *)
(* the host (variable os), its position in the running verb (pc) and the   *)
(* exit status of the process.  Every external command is one step.  The   *)
(* variables cmds, start, prev, faulted and report are history variables:  *)
(* they record what a run issued and saw, and nothing reads them back.     *)
(*                                                                         *)
(* Host assumptions: no other process changes the host while a verb runs   *)
(* (spec section 5), and the host has no second namespace or address whose *)
(* text also matches the grep patterns of the inspector queries.           *)
(***************************************************************************)
EXTENDS Naturals, Integers, Sequences, FiniteSets, TLC

VARIABLES
    os,        \* the host: namespace, interface, address, route, unit file, enablement
    pc,        \* position of the running process; "idle" when no process runs
    action,    \* sys.argv[1].lower() of the running (or last) process
    force,     \* the force argument of the running setup_namespace call
    pingIdx,   \* index into targets of the next ping of test_namespace
    exitCode,  \* exit status of the last process (-1 while one runs or before any)
    cmds,      \* history: the commands the running (or last) process issued
    start,     \* history: the host when that process started
    faulted,   \* history: a command of this run failed for a reason outside the model
    report,    \* history: what show_status printed
    invoked,   \* history: os.geteuid() and sys.argv[1:] of that process
    prev       \* history: the run before this one

vars == <<os, pc, action, force, pingIdx, exitCode, cmds, start, faulted, report,
         invoked, prev>>

-----------------------------------------------------------------------------
(* Configuration, lines 87-92.                                             *)

namespace == "ha-test"
interface == "ha-0-0"
ip_address == "2.2.2.3/24"
gateway == "2.2.2.2"
service_file == "/etc/systemd/system/ha-test-netns.service"

\* One external command line: the program and the configuration values in it.
Cmd(c, a) == [cmd |-> c, args |-> a]

\* Mutation of service_content: the address is added before the links are up.
service_content_reordered ==
    << Cmd("ip netns add",      <<namespace>>),
       Cmd("ip link set netns", <<interface, namespace>>),
       Cmd("ip addr add",       <<namespace, ip_address, interface>>),
       Cmd("ip link set up",    <<namespace, interface>>),
       Cmd("ip link set lo up", <<namespace>>),
       Cmd("ip route add",      <<namespace, gateway>>) >>

\* The ExecStart / ExecStartPost lines of the rendered unit, in file order.
service_content ==
    << Cmd("ip netns add",      <<namespace>>),
       Cmd("ip link set netns", <<interface, namespace>>),
       Cmd("ip link set up",    <<namespace, interface>>),
       Cmd("ip link set lo up", <<namespace>>),
       Cmd("ip addr add",       <<namespace, ip_address, interface>>),
       Cmd("ip route add",      <<namespace, gateway>>) >>

NoFile == <<>>
\* Some other content found at service_file (an older version of the unit).
StaleFile == << Cmd("ip netns add", <<"old-ns">>) >>

targets == << gateway, "2.2.2.2", "8.8.8.8", "192.168.7.1" >>

-----------------------------------------------------------------------------
(* The host.                                                               *)

IfLocs == {"Absent", "Root", "Target"}

\* The hosts the tool can meet: the interface can be inside the namespace
\* only if the namespace exists, an address on it is tracked only there, a
\* default route via the gateway needs the address and the link up, and a
\* unit is enabled only while its file is installed.
HostOK(s) ==
    /\ s.ns \in BOOLEAN
    /\ s.ifLoc \in IfLocs
    /\ (s.ifLoc = "Target") => s.ns
    /\ s.ifUp => s.ifLoc # "Absent"
    /\ s.loUp => s.ns
    /\ s.addr => s.ifLoc = "Target"
    /\ s.route => (s.addr /\ s.ifUp)
    /\ s.enabled => s.unitFile # <<>>

Hosts ==
    { s \in [ns : BOOLEAN, ifLoc : IfLocs, ifUp : BOOLEAN, loUp : BOOLEAN,
             addr : BOOLEAN, route : BOOLEAN,
             unitFile : {NoFile, StaleFile, service_content},
             enabled : BOOLEAN] : HostOK(s) }

\* What the kernel does with the namespace's devices when the namespace is
\* deleted: a physical device returns to the root namespace, a virtual one
\* (veth, dummy, ...) is destroyed.  Either way it is down with no address.
NetnsDelOutcomes(s) ==
    IF ~s.ns THEN {[ok |-> FALSE, os |-> s]}
    ELSE { [ok |-> TRUE,
            os |-> [s EXCEPT !.ns = FALSE, !.loUp = FALSE, !.addr = FALSE,
                             !.route = FALSE,
                             !.ifLoc = IF s.ifLoc = "Target" THEN loc ELSE s.ifLoc,
                             !.ifUp = IF s.ifLoc = "Target" THEN FALSE ELSE s.ifUp]] :
           loc \in {"Root", "Absent"} }

\* The outcome of one command on host s, as the kernel or systemd decides it.
OsExec(cmd, s) ==
    CASE cmd = "ip netns add" ->
           IF s.ns THEN {[ok |-> FALSE, os |-> s]}
           ELSE {[ok |-> TRUE, os |-> [s EXCEPT !.ns = TRUE]]}
      [] cmd = "ip netns del" -> NetnsDelOutcomes(s)
      [] cmd = "ip link set netns" ->
           \* run in the root namespace: moves the device found there
           IF s.ns /\ s.ifLoc = "Root"
           THEN {[ok |-> TRUE, os |-> [s EXCEPT !.ifLoc = "Target", !.ifUp = FALSE]]}
           ELSE {[ok |-> FALSE, os |-> s]}
      [] cmd = "ip link set up" ->
           IF s.ns /\ s.ifLoc = "Target"
           THEN {[ok |-> TRUE, os |-> [s EXCEPT !.ifUp = TRUE]]}
           ELSE {[ok |-> FALSE, os |-> s]}
      [] cmd = "ip link set lo up" ->
           IF s.ns THEN {[ok |-> TRUE, os |-> [s EXCEPT !.loUp = TRUE]]}
           ELSE {[ok |-> FALSE, os |-> s]}
      [] cmd = "ip addr add" ->
           IF s.ns /\ s.ifLoc = "Target" /\ ~s.addr
           THEN {[ok |-> TRUE, os |-> [s EXCEPT !.addr = TRUE]]}
           ELSE {[ok |-> FALSE, os |-> s]}
      [] cmd = "ip route add" ->
           IF s.ns /\ s.ifLoc = "Target" /\ s.addr /\ s.ifUp /\ ~s.route
           THEN {[ok |-> TRUE, os |-> [s EXCEPT !.route = TRUE]]}
           ELSE {[ok |-> FALSE, os |-> s]}
      [] cmd = "systemctl daemon-reload" -> {[ok |-> TRUE, os |-> s]}
      [] cmd = "systemctl enable" ->
           IF s.unitFile # NoFile
           THEN {[ok |-> TRUE, os |-> [s EXCEPT !.enabled = TRUE]]}
           ELSE {[ok |-> FALSE, os |-> s]}
      [] cmd = "systemctl disable" ->
           \* the command line ends in "|| true": its status is always 0
           {[ok |-> TRUE, os |-> [s EXCEPT !.enabled = FALSE]]}
      [] cmd \in {"systemctl is-enabled", "systemctl status"} ->
           {[ok |-> TRUE, os |-> s]}
      [] cmd \in {"ping", "iperf"} ->
           {[ok |-> b, os |-> s] : b \in (IF s.ns THEN BOOLEAN ELSE {FALSE})}
      [] cmd \in {"cp", "chmod"} -> {[ok |-> TRUE, os |-> s]}

\* systemd running the unit's start commands in order, stopping at the first
\* that fails (Type=oneshot: the unit then fails and so does the restart).
RECURSIVE RunUnit(_, _)
RunUnit(body, s) ==
    IF body = <<>> THEN [ok |-> TRUE, os |-> s]
    ELSE LET r == CHOOSE x \in OsExec(Head(body).cmd, s) : TRUE
         IN  IF r.ok THEN RunUnit(Tail(body), r.os) ELSE [ok |-> FALSE, os |-> r.os]

OsOutcomes(cmd, s) ==
    IF cmd = "systemctl restart" THEN {RunUnit(s.unitFile, s)} ELSE OsExec(cmd, s)

\* Commands that can also fail for a reason the host model does not hold
\* (no permission, a busy device, a read-only file system, ...).
Faultable ==
    {"ip netns add", "ip netns del", "ip link set netns", "ip link set up",
     "ip link set lo up", "ip addr add", "ip route add",
     "systemctl daemon-reload", "systemctl enable", "systemctl restart",
     "cp", "chmod"}

Outcomes(cmd, s) ==
    OsOutcomes(cmd, s) \cup
        (IF cmd \in Faultable THEN {[ok |-> FALSE, os |-> s]} ELSE {})

-----------------------------------------------------------------------------
(* State Inspector, lines 98-116.  A query is the exit status of its       *)
(* command: 0 is "true", anything else "false".                            *)

\* ip netns list | grep -w ha-test
namespace_exists == os.ns

\* Mutation of interface_in_namespace: the query never finds the device.
interface_in_namespace_never == FALSE

\* ip netns exec ha-test ip link show ha-0-0: fails when the namespace does
\* not exist or the device is not inside it.
interface_in_namespace == os.ns /\ os.ifLoc = "Target"

\* Mutation of interface_exists: an existing namespace is taken for the
\* interface being there.
interface_exists_nsOnly ==
    IF namespace_exists THEN TRUE ELSE os.ifLoc = "Root"

\* Looks inside the namespace when the namespace exists, and otherwise in
\* the root namespace.
interface_exists ==
    IF namespace_exists THEN os.ns /\ os.ifLoc = "Target"
    ELSE os.ifLoc = "Root"

\* Mutation of ip_address_exists: the query always finds the address.
ip_address_exists_always == TRUE

\* Mutation of ip_address_exists: the query never finds the address.
ip_address_exists_never == FALSE

\* ip netns exec ha-test ip addr show dev ha-0-0 | grep '2.2.2.3'
ip_address_exists == os.ns /\ os.ifLoc = "Target" /\ os.addr

-----------------------------------------------------------------------------
(* Command Executor and process control.                                   *)

Entry(c, a, ok, check) == [cmd |-> c, args |-> a, ok |-> ok, check |-> check]

\* Control moves to next; "exit0" is the normal end of the process.
Goto(next) ==
    IF next = "exit0" THEN pc' = "idle" /\ exitCode' = 0
    ELSE pc' = next /\ exitCode' = exitCode

\* exit(1), and the uncaught CalledProcessError (traceback, status 1).
Die == pc' = "idle" /\ exitCode' = 1

\* Mutation of run_cmd: check is ignored, a failed command never raises.
run_cmd_unchecked(c, a, check, next) ==
    \E r \in Outcomes(c, os) :
        /\ os' = r.os
        /\ cmds' = Append(cmds, Entry(c, a, r.ok, check))
        /\ faulted' = (faulted \/ r \notin OsOutcomes(c, os))
        /\ Goto(next)

\* run_cmd(cmd, check): subprocess.run(..., check=check) raises
\* CalledProcessError on a non-zero status when check is set; nothing in the
\* callers below catches it.
run_cmd(c, a, check, next) ==
    \E r \in Outcomes(c, os) :
        /\ os' = r.os
        /\ cmds' = Append(cmds, Entry(c, a, r.ok, check))
        /\ faulted' = (faulted \/ r \notin OsOutcomes(c, os))
        /\ IF r.ok \/ ~check THEN Goto(next) ELSE Die

\* A step that runs no command.
Skip(next) ==
    /\ Goto(next)
    /\ UNCHANGED <<os, cmds, faulted>>

-----------------------------------------------------------------------------
(* Action Dispatcher, lines 259-299.                                       *)

ADD      == <<"a","d","d">>
FORCEADD == <<"f","o","r","c","e","-","a","d","d">>
UPDATE   == <<"u","p","d","a","t","e">>
REMOVE   == <<"r","e","m","o","v","e">>
STATUS   == <<"s","t","a","t","u","s">>
RESTART  == <<"r","e","s","t","a","r","t">>
RELOAD   == <<"r","e","l","o","a","d">>
TEST     == <<"t","e","s","t">>
TEST2    == <<"t","e","s","t","2">>
INSTALL  == <<"i","n","s","t","a","l","l">>

\* str.lower() on the characters the model's arguments use.
LowerChar(ch) ==
    CASE ch = "A" -> "a" [] ch = "D" -> "d" [] ch = "R" -> "r"
      [] ch = "S" -> "s" [] ch = "T" -> "t" [] ch = "U" -> "u"
      [] OTHER -> ch

lower(s) == [i \in DOMAIN s |-> LowerChar(s[i])]

\* The command lines the model starts the tool with: sys.argv[1:].
Argvs ==
    { <<>>,
      <<ADD>>, <<FORCEADD>>, <<UPDATE>>, <<REMOVE>>, <<STATUS>>, <<RESTART>>,
      <<RELOAD>>, <<TEST>>, <<TEST2>>, <<INSTALL>>,
      << <<"A","D","D">> >>, << <<"S","t","a","t","u","s">> >>,
      << <<"d","e","l","e","t","e">> >>, <<REMOVE, ADD>> }

\* Mutation of Dispatch: update is given the call sequence of add.
Dispatch_updateConverges(a) ==
    CASE a = ADD      -> "sn_check"
      [] a = FORCEADD -> "sn_check"
      [] a = UPDATE   -> "sn_check"
      [] a = REMOVE   -> "rm_ns"
      [] a = STATUS   -> "st_ns"
      [] a = RESTART  -> "rm_ns"
      [] a = RELOAD   -> "cs_write"
      [] a = TEST     -> "tn_check"
      [] a = TEST2    -> "ti_which"
      [] a = INSTALL  -> "in_cp"
      [] OTHER        -> "usage"

\* The first position of each verb's call sequence.
Dispatch(a) ==
    CASE a = ADD      -> "sn_check"
      [] a = FORCEADD -> "sn_check"
      [] a = UPDATE   -> "cs_write"
      [] a = REMOVE   -> "rm_ns"
      [] a = STATUS   -> "st_ns"
      [] a = RESTART  -> "rm_ns"
      [] a = RELOAD   -> "cs_write"
      [] a = TEST     -> "tn_check"
      [] a = TEST2    -> "ti_which"
      [] a = INSTALL  -> "in_cp"
      [] OTHER        -> "usage"

NoReport == [ns |-> "", enabled |-> ""]

CleanHost ==
    [ns |-> FALSE, ifLoc |-> "Root", ifUp |-> FALSE, loUp |-> FALSE,
     addr |-> FALSE, route |-> FALSE, unitFile |-> NoFile, enabled |-> FALSE]

\* The part of a host the inspector queries observe.
Observed(s) == [ns |-> s.ns, ifLoc |-> s.ifLoc, addr |-> s.addr]

NoRun ==
    [action |-> <<>>, start |-> Observed(CleanHost), cmds |-> <<>>, exit |-> -1,
     faulted |-> FALSE]

\* The verbs whose runs are remembered for the run that follows them.
Remembered == {ADD, REMOVE}

\* The run that just ended, as the next one will remember it.  The host it
\* ended on is the host the next run starts on.
LastRun ==
    IF exitCode = -1 \/ action \notin Remembered THEN NoRun
    ELSE [action |-> action, start |-> Observed(start),
          cmds |-> [i \in DOMAIN cmds |-> cmds[i].cmd],
          exit |-> exitCode, faulted |-> faulted]

\* Mutation of Privileged: the privilege check is missing.
Privileged_always(euid) == TRUE

\* Line 260: os.geteuid() != 0 ends the process.
Privileged(euid) == euid = 0

\* A new process: the privilege check, the argument count, the dispatch.
Start ==
    /\ pc = "idle"
    /\ \E euid \in {0, 1000}, argv \in Argvs :
         /\ invoked' = [euid |-> euid, argv |-> argv]
         /\ IF ~Privileged(euid)
            THEN action' = <<>> /\ force' = FALSE /\ Die
            ELSE IF Len(argv) < 1
                 THEN action' = <<>> /\ force' = FALSE /\ Die
                 ELSE LET a == lower(argv[1])
                      IN  /\ action' = a
                          /\ force' = (a = FORCEADD)
                          /\ IF Dispatch(a) = "usage" THEN Die
                             ELSE pc' = Dispatch(a) /\ exitCode' = -1
    /\ prev' = LastRun
    /\ start' = os
    /\ cmds' = <<>>
    /\ faulted' = FALSE
    /\ report' = NoReport
    /\ pingIdx' = 1
    /\ UNCHANGED os

\* The process is killed between two commands: nothing is rolled back.
Interrupt ==
    /\ pc # "idle"
    /\ pc' = "idle"
    /\ exitCode' = 137
    /\ UNCHANGED <<os, action, force, pingIdx, cmds, start, faulted, report,
                   invoked, prev>>

-----------------------------------------------------------------------------
(* Reconciler: setup_namespace(force), lines 118-152.                      *)

Ctl == <<action, force, pingIdx, start, report, invoked, prev>>

\* Mutation of sn_check: the error is printed but exit(1) is missing.
sn_check_noAbort ==
    /\ pc = "sn_check"
    /\ Goto("sn_ns")
    /\ UNCHANGED <<os, cmds, faulted>>
    /\ UNCHANGED Ctl

\* Lines 120-122: abort when interface_exists() is false.
sn_check ==
    /\ pc = "sn_check"
    /\ IF ~interface_exists THEN Die ELSE Goto("sn_ns")
    /\ UNCHANGED <<os, cmds, faulted>>
    /\ UNCHANGED Ctl

\* Mutation of sn_ns: force is ignored, an existing namespace is always kept.
sn_ns_noForce ==
    /\ pc = "sn_ns"
    /\ IF namespace_exists
       THEN Skip("sn_move")
       ELSE run_cmd("ip netns add", <<namespace>>, TRUE, "sn_move")
    /\ UNCHANGED Ctl

\* Lines 125-133: create the namespace; with force, delete an existing one first.
sn_ns ==
    /\ pc = "sn_ns"
    /\ IF namespace_exists
       THEN IF force
            THEN run_cmd("ip netns del", <<namespace>>, TRUE, "sn_ns_readd")
            ELSE Skip("sn_move")
       ELSE run_cmd("ip netns add", <<namespace>>, TRUE, "sn_move")
    /\ UNCHANGED Ctl

\* Line 129: the re-creation that follows the forced delete.
sn_ns_readd ==
    /\ pc = "sn_ns_readd"
    /\ run_cmd("ip netns add", <<namespace>>, TRUE, "sn_move")
    /\ UNCHANGED Ctl

\* Mutation of sn_move: the interface is never moved.
sn_move_never ==
    /\ pc = "sn_move"
    /\ Skip("sn_up")
    /\ UNCHANGED Ctl

\* Lines 136-139: move the interface unless it is already inside.
sn_move ==
    /\ pc = "sn_move"
    /\ IF ~interface_in_namespace
       THEN run_cmd("ip link set netns", <<interface, namespace>>, TRUE, "sn_up")
       ELSE Skip("sn_up")
    /\ UNCHANGED Ctl

\* Line 142.
sn_up ==
    /\ pc = "sn_up"
    /\ run_cmd("ip link set up", <<namespace, interface>>, TRUE, "sn_lo")
    /\ UNCHANGED Ctl

\* Line 143.
sn_lo ==
    /\ pc = "sn_lo"
    /\ run_cmd("ip link set lo up", <<namespace>>, TRUE, "sn_addr")
    /\ UNCHANGED Ctl

\* Lines 146-149: add the address unless it is already there.
sn_addr ==
    /\ pc = "sn_addr"
    /\ IF ~ip_address_exists
       THEN run_cmd("ip addr add", <<namespace, ip_address, interface>>, TRUE, "sn_route")
       ELSE Skip("sn_route")
    /\ UNCHANGED Ctl

\* Line 152: check=False.  Every caller goes on to create_systemd_service.
sn_route ==
    /\ pc = "sn_route"
    /\ run_cmd("ip route add", <<namespace, gateway>>, FALSE, "cs_write")
    /\ UNCHANGED Ctl

-----------------------------------------------------------------------------
(* Persistence Writer: create_systemd_service, lines 154-180.              *)

\* Mutation of cs_write: the file is opened with "a" and appended to.
cs_write_append ==
    /\ pc = "cs_write"
    /\ os' = [os EXCEPT !.unitFile = os.unitFile \o service_content]
    /\ cmds' = Append(cmds, Entry("write unit", <<service_file>>, TRUE, TRUE))
    /\ Goto("cs_reload")
    /\ UNCHANGED faulted
    /\ UNCHANGED Ctl

\* Lines 156-174: the file is opened with "w" and written whole.
cs_write ==
    /\ pc = "cs_write"
    /\ os' = [os EXCEPT !.unitFile = service_content]
    /\ cmds' = Append(cmds, Entry("write unit", <<service_file>>, TRUE, TRUE))
    /\ Goto("cs_reload")
    /\ UNCHANGED faulted
    /\ UNCHANGED Ctl

\* Line 177.
cs_reload ==
    /\ pc = "cs_reload"
    /\ run_cmd("systemctl daemon-reload", <<>>, TRUE, "cs_enable")
    /\ UNCHANGED Ctl

\* Line 180; reload_service goes on to restart the unit, the other callers end.
cs_enable ==
    /\ pc = "cs_enable"
    /\ run_cmd("systemctl enable", <<namespace>>, TRUE,
               IF action = RELOAD THEN "rl_restart" ELSE "exit0")
    /\ UNCHANGED Ctl

\* Line 220.
rl_restart ==
    /\ pc = "rl_restart"
    /\ run_cmd("systemctl restart", <<namespace>>, TRUE, "exit0")
    /\ UNCHANGED Ctl

-----------------------------------------------------------------------------
(* remove_namespace, lines 182-197.                                        *)

\* Mutation of rm_ns: the namespace is deleted after the unit is disabled.
rm_ns_late ==
    \/ /\ pc = "rm_ns"
       /\ Skip("rm_disable")
       /\ UNCHANGED Ctl
    \/ /\ pc = "rm_file"
       /\ namespace_exists
       /\ run_cmd("ip netns del", <<namespace>>, TRUE, "rm_file")
       /\ UNCHANGED Ctl

\* Lines 184-187.
rm_ns ==
    /\ pc = "rm_ns"
    /\ IF namespace_exists
       THEN run_cmd("ip netns del", <<namespace>>, TRUE, "rm_disable")
       ELSE Skip("rm_disable")
    /\ UNCHANGED Ctl

\* Mutation of rm_disable: the unit is left enabled.
rm_disable_skipped ==
    /\ pc = "rm_disable"
    /\ Skip("rm_file")
    /\ UNCHANGED Ctl

\* Line 190: check=False.
rm_disable ==
    /\ pc = "rm_disable"
    /\ run_cmd("systemctl disable", <<namespace>>, FALSE, "rm_file")
    /\ UNCHANGED Ctl

\* Where remove_namespace returns to: restart_all goes on to setup_namespace.
rm_return == IF action = RESTART THEN "sn_check" ELSE "exit0"

\* Mutation of rm_file: daemon-reload is run whether or not a file was removed.
rm_file_alwaysReload ==
    /\ pc = "rm_file"
    /\ IF os.unitFile # NoFile
       THEN /\ os' = [os EXCEPT !.unitFile = NoFile]
            /\ cmds' = Append(cmds, Entry("remove unit", <<service_file>>, TRUE, TRUE))
            /\ Goto("rm_reload")
            /\ UNCHANGED faulted
       ELSE Skip("rm_reload")
    /\ UNCHANGED Ctl

\* Lines 192-197: os.remove when the file exists.
rm_file ==
    /\ pc = "rm_file"
    /\ IF os.unitFile # NoFile
       THEN /\ os' = [os EXCEPT !.unitFile = NoFile]
            /\ cmds' = Append(cmds, Entry("remove unit", <<service_file>>, TRUE, TRUE))
            /\ Goto("rm_reload")
            /\ UNCHANGED faulted
       ELSE Skip(rm_return)
    /\ UNCHANGED Ctl

\* Line 195.
rm_reload ==
    /\ pc = "rm_reload"
    /\ run_cmd("systemctl daemon-reload", <<>>, TRUE, rm_return)
    /\ UNCHANGED Ctl

-----------------------------------------------------------------------------
(* show_status, lines 199-208.                                             *)

st_ns ==
    /\ pc = "st_ns"
    /\ report' = [report EXCEPT !.ns = IF namespace_exists THEN "exists"
                                       ELSE "does not exist"]
    /\ Goto("st_enabled")
    /\ UNCHANGED <<os, cmds, faulted, action, force, pingIdx, start, invoked, prev>>

\* Line 207: systemctl is-enabled prints the unit's enablement.
st_enabled ==
    /\ pc = "st_enabled"
    /\ run_cmd("systemctl is-enabled", <<namespace>>, FALSE, "st_status")
    /\ report' = [report EXCEPT !.enabled = IF os.enabled THEN "enabled"
                                            ELSE "not enabled"]
    /\ UNCHANGED <<action, force, pingIdx, start, invoked, prev>>

\* Line 208.
st_status ==
    /\ pc = "st_status"
    /\ run_cmd("systemctl status", <<namespace>>, FALSE, "exit0")
    /\ UNCHANGED Ctl

-----------------------------------------------------------------------------
(* Diagnostics, lines 223-249, and install_script, lines 251-257.          *)

\* Lines 225-227.
tn_check ==
    /\ pc = "tn_check"
    /\ Skip(IF ~namespace_exists THEN "exit0" ELSE "tn_ping")
    /\ UNCHANGED Ctl

\* Mutation of tn_ping: the CalledProcessError of a failed ping is not caught.
tn_ping_uncaught ==
    /\ pc = "tn_ping"
    /\ \E r \in Outcomes("ping", os) :
         /\ cmds' = Append(cmds, Entry("ping", <<namespace, targets[pingIdx]>>, r.ok, TRUE))
         /\ os' = r.os
         /\ IF r.ok THEN Goto(IF pingIdx = Len(targets) THEN "exit0" ELSE "tn_ping")
            ELSE Die
    /\ pingIdx' = pingIdx + 1
    /\ UNCHANGED <<faulted, action, force, start, report, invoked, prev>>

\* Lines 230-235: the CalledProcessError of a failed ping is caught.
tn_ping ==
    /\ pc = "tn_ping"
    /\ \E r \in Outcomes("ping", os) :
         /\ cmds' = Append(cmds, Entry("ping", <<namespace, targets[pingIdx]>>, r.ok, TRUE))
         /\ os' = r.os
    /\ pingIdx' = pingIdx + 1
    /\ Goto(IF pingIdx = Len(targets) THEN "exit0" ELSE "tn_ping")
    /\ UNCHANGED <<faulted, action, force, start, report, invoked, prev>>

\* Lines 240-245: "which iperf" decides whether the client is run at all.
ti_which ==
    /\ pc = "ti_which"
    /\ \E found \in BOOLEAN : Skip(IF found THEN "ti_iperf" ELSE "exit0")
    /\ UNCHANGED Ctl

\* Lines 248-249.
ti_iperf ==
    /\ pc = "ti_iperf"
    /\ run_cmd("iperf", <<namespace>>, TRUE, "exit0")
    /\ UNCHANGED Ctl

\* Line 254.
in_cp ==
    /\ pc = "in_cp"
    /\ run_cmd("cp", <<>>, TRUE, "in_chmod")
    /\ UNCHANGED Ctl

\* Line 255.
in_chmod ==
    /\ pc = "in_chmod"
    /\ run_cmd("chmod", <<>>, TRUE, "exit0")
    /\ UNCHANGED Ctl

-----------------------------------------------------------------------------
(* The specification.  The tool can be started on any host.                *)

Init ==
    /\ os \in Hosts
    /\ pc = "idle"
    /\ action = <<>>
    /\ force = FALSE
    /\ pingIdx = 1
    /\ exitCode = -1
    /\ cmds = <<>>
    /\ start = os
    /\ faulted = FALSE
    /\ report = NoReport
    /\ invoked = [euid |-> 0, argv |-> <<>>]
    /\ prev = NoRun

Next ==
    \/ Start
    \/ Interrupt
    \/ sn_check
    \/ sn_ns
    \/ sn_ns_readd
    \/ sn_move
    \/ sn_up
    \/ sn_lo
    \/ sn_addr
    \/ sn_route
    \/ cs_write
    \/ cs_reload
    \/ cs_enable
    \/ rl_restart
    \/ rm_ns
    \/ rm_disable
    \/ rm_file
    \/ rm_reload
    \/ st_ns
    \/ st_enabled
    \/ st_status
    \/ tn_check
    \/ tn_ping
    \/ ti_which
    \/ ti_iperf
    \/ in_cp
    \/ in_chmod

Spec == Init /\ [][Next]_vars

TypeOK ==
    /\ os \in Hosts
    /\ exitCode \in {-1, 0, 1, 137}
    /\ (pc # "idle") => (exitCode = -1)
    /\ pingIdx \in 1..(Len(targets) + 1)

-----------------------------------------------------------------------------
(* Properties.                                                             *)

Names(log) == [i \in DOMAIN log |-> log[i].cmd]

Count(c, names) == Cardinality({i \in DOMAIN names : names[i] = c})

IsPrefix(s, u) == Len(s) <= Len(u) /\ \A i \in DOMAIN s : s[i] = u[i]

\* The process ended by itself (it was not killed).
Ended == pc = "idle" /\ exitCode \in {0, 1}

\* spec section 8: namespace absent, interface in the root namespace, no address.
Clean(o) == ~o.ns /\ o.ifLoc = "Root" /\ ~o.addr

\* The target state of converge.
Converged(o) == o.ns /\ o.ifLoc = "Target" /\ o.addr

\* This run is an add that directly follows an add that completed on a clean host.
SecondAdd ==
    /\ prev.action = ADD /\ Clean(prev.start) /\ prev.exit = 0
    /\ action = ADD

\* C1: converge is idempotent on a clean host.  When add has completed on a
\* clean host and a second add directly after it ends, the second run ends
\* normally unless a command failed for an outside reason, and once it has
\* ended normally the observed state is the one the first run left
\* (namespace present, interface inside it, address assigned) and namespace
\* create, interface move and address add were each issued exactly once
\* over the two runs.
C1_ConvergeIdempotent ==
    (SecondAdd /\ Ended) =>
        /\ ~faulted => exitCode = 0
        /\ exitCode = 0 =>
            /\ Observed(os) = Observed(start)
            /\ Converged(os)
            /\ \A c \in {"ip netns add", "ip link set netns", "ip addr add"} :
                   Count(c, prev.cmds) + Count(c, Names(cmds)) = 1

C1_Witness == SecondAdd /\ Ended /\ exitCode = 0 /\ Len(cmds) > 0

\* The commands of steps (c) and (e), and of step (f).
StepsCE == <<"ip link set up", "ip link set lo up", "ip route add">>
StepsF == <<"write unit", "systemctl daemon-reload", "systemctl enable">>

\* C2 as stated: the second add performs steps (c) and (e) and no other step.
C2_OnlyStepsCE ==
    (SecondAdd /\ Ended /\ exitCode = 0) => Names(cmds) = StepsCE

\* C2 as amended: the second add performs steps (c) and (e), skipping (a),
\* (b) and (d), and then step (f) again: it rewrites the unit, reloads the
\* service manager and enables the unit.  It performs no other step.
C2_StepsCEThenF ==
    SecondAdd =>
        /\ IsPrefix(Names(cmds), StepsCE \o StepsF)
        /\ (Ended /\ exitCode = 0) => Names(cmds) = StepsCE \o StepsF

C2_Witness == SecondAdd /\ Ended /\ exitCode = 0 /\ Len(cmds) = 6

\* C3: when the interface is absent everywhere, converge (either force,
\* namespace present or not) issues no command, changes nothing on the host
\* and the process ends with status 1.
C3_PreconditionAbort ==
    [][ (pc = "sn_check" /\ os.ifLoc = "Absent") =>
            /\ pc' = "idle"
            /\ exitCode' \in {1, 137}
            /\ os' = os
            /\ cmds' = cmds ]_vars

C3_Witness ==
    /\ action = FORCEADD /\ start.ifLoc = "Absent" /\ start.ns
    /\ pc = "idle" /\ exitCode = 1 /\ cmds = <<>> /\ os = start

\* C4: whenever the interface is in the root namespace or in the target
\* namespace, converge passes step 1 and goes on to the namespace step.
C4_PassesWhenVisible ==
    [][ (pc = "sn_check" /\ os.ifLoc \in {"Root", "Target"}) =>
            (pc' = "sn_ns" \/ exitCode' = 137) ]_vars

\* C5: an add that follows an add killed at any point on a clean host, and
\* that is itself neither killed nor hit by an outside failure, does not
\* abort and ends with the namespace present, the interface inside it, the
\* address assigned and the unit written and enabled.
C5_RerunAfterPartial ==
    ( /\ prev.action = ADD /\ Clean(prev.start) /\ prev.exit = 137
      /\ ~prev.faulted
      /\ action = ADD /\ Ended /\ ~faulted ) =>
        /\ exitCode = 0
        /\ Converged(os)
        /\ os.unitFile = service_content
        /\ os.enabled

\* The run started with the interface in neither namespace and ended by itself.
EndedWithoutInterface == start.ifLoc = "Absent" /\ Ended

\* The part of the host C6 speaks about.
Kept(o) == [ns |-> o.ns, unitFile |-> o.unitFile, enabled |-> o.enabled]

\* C6 as stated: add, force-add and restart started without the interface
\* (and with no command failing for an outside reason) end with a non-zero
\* status and leave namespace existence, the unit file and the unit's
\* enablement as they were.
C6_NoMutationOnAbort ==
    (action \in {ADD, FORCEADD, RESTART} /\ EndedWithoutInterface /\ ~faulted) =>
        /\ exitCode # 0
        /\ Kept(os) = Kept(start)

\* The commands of remove_namespace.
RemoveCmds ==
    {"ip netns del", "systemctl disable", "remove unit", "systemctl daemon-reload"}

\* C6 as amended: add and force-add started without the interface end with
\* status 1, having issued no command and changed nothing.  restart also
\* ends with status 1 and issues no command of converge or installUnit, but
\* only after its remove phase: unless a command of that phase failed, the
\* namespace is deleted, the unit disabled and the unit file removed.
C6_AbortAfterRemoveOnly ==
    /\ (action \in {ADD, FORCEADD} /\ EndedWithoutInterface) =>
           exitCode = 1 /\ cmds = <<>> /\ os = start
    /\ (action = RESTART /\ EndedWithoutInterface) =>
           /\ exitCode = 1
           /\ \A i \in DOMAIN cmds : cmds[i].cmd \in RemoveCmds
           /\ ~faulted => Kept(os) = [ns |-> FALSE, unitFile |-> NoFile,
                                      enabled |-> FALSE]

C6_Witness ==
    /\ action = RESTART /\ EndedWithoutInterface
    /\ start.ns /\ start.enabled /\ start.unitFile # NoFile
    /\ ~os.ns /\ ~os.enabled /\ os.unitFile = NoFile

\* The mutating commands C7 lists.
MutatingCmds ==
    {"ip netns add", "ip netns del", "ip link set netns", "ip link set up",
     "ip link set lo up", "ip addr add", "ip route add",
     "systemctl daemon-reload", "systemctl enable", "systemctl restart"}

\* Command i of this run was the last one and the process ended with status 1.
DiedAt(i) == i = Len(cmds) /\ pc = "idle" /\ exitCode = 1

\* C7 as stated: a mutating command that returns a non-zero status never
\* ends the process with a non-zero status.
C7_NoCommandFailureIsFatal ==
    \A i \in DOMAIN cmds :
        (cmds[i].cmd \in MutatingCmds /\ ~cmds[i].ok) => ~DiedAt(i)

\* C7 as amended: a non-zero status of a mutating command run with
\* check=True (namespace add and delete, interface move, both link-up
\* commands, address add, daemon-reload, enable, unit restart) ends the
\* process there with status 1, the remaining steps are not run; only a
\* non-zero status of route add (check=False) neither ends the process nor
\* stops the steps after it.
C7_CheckedFailureIsFatal ==
    \A i \in DOMAIN cmds :
        (cmds[i].cmd \in MutatingCmds /\ ~cmds[i].ok) =>
            IF cmds[i].cmd = "ip route add"
            THEN /\ ~DiedAt(i)
                 /\ (i = Len(cmds)) => (pc = "cs_write" \/ exitCode = 137)
            ELSE DiedAt(i)

C7_Witness ==
    /\ \E i \in DOMAIN cmds : cmds[i].cmd = "ip route add" /\ ~cmds[i].ok
    /\ Len(cmds) > 0
    /\ cmds[Len(cmds)].cmd = "systemctl enable" /\ ~cmds[Len(cmds)].ok
    /\ pc = "idle" /\ exitCode = 1

UnitCmds == {"systemctl disable", "remove unit", "systemctl daemon-reload"}

\* C9 as stated: in a remove run the unit is disabled and its file deleted
\* before the namespace delete is issued.
C9_UnitBeforeNamespace ==
    action = REMOVE =>
        \A i \in DOMAIN cmds :
            cmds[i].cmd = "ip netns del" =>
                \E j \in 1..(i - 1) : cmds[j].cmd \in UnitCmds

\* C9 as amended: in a remove run the namespace delete comes first: when
\* the namespace exists it is the first command issued, and the unit
\* disable, the unit-file deletion and the daemon-reload all follow it.
C9_NamespaceBeforeUnit ==
    action = REMOVE =>
        /\ (start.ns /\ cmds # <<>>) => cmds[1].cmd = "ip netns del"
        /\ \A i, j \in DOMAIN cmds :
               (cmds[i].cmd = "ip netns del" /\ cmds[j].cmd \in UnitCmds) => i < j

C9_Witness ==
    /\ action = REMOVE /\ Ended /\ exitCode = 0
    /\ Names(cmds) = <<"ip netns del", "systemctl disable", "remove unit",
                       "systemctl daemon-reload">>

\* C10: a remove that ends is normal (status 0) unless a command failed for
\* an outside reason, and after a remove that ended normally, from whatever
\* host it started, a status run directly after it reports the namespace as
\* not existing and the unit as not enabled, and the unit file is absent.
C10_RemoveThenStatus ==
    /\ (action = REMOVE /\ Ended /\ ~faulted) => exitCode = 0
    /\ (prev.action = REMOVE /\ prev.exit = 0 /\ action = STATUS /\ Ended) =>
           /\ report = [ns |-> "does not exist", enabled |-> "not enabled"]
           /\ os.unitFile = NoFile
           /\ exitCode = 0

C10_Witness ==
    /\ prev.action = REMOVE /\ prev.exit = 0 /\ prev.start.ns
    /\ Count("remove unit", prev.cmds) = 1
    /\ action = STATUS /\ Ended
    /\ report.ns = "does not exist"

\* Nothing of the unit exists: no file, no enablement.
NoUnit(o) == o.unitFile = NoFile /\ ~o.enabled

\* C11 as stated: when neither the unit file nor the enablement exists a
\* remove run issues no command to the service manager.
C11_NoServiceManagerCommand ==
    (action = REMOVE /\ NoUnit(start) /\ Ended) =>
        \A i \in DOMAIN cmds : cmds[i].cmd \notin UnitCmds

\* C11 as amended: when neither the unit file nor the enablement exists,
\* removeUnit still issues the tolerated disable command, and nothing else
\* (no file deletion, no daemon-reload), and changes nothing of the unit;
\* a remove directly after a remove that ended normally issues only that
\* disable, leaves the host exactly as the first left it and ends with
\* status 0.
C11_RemoveUnitIdempotent ==
    /\ (action = REMOVE /\ NoUnit(start)) =>
           /\ \A i \in DOMAIN cmds :
                  cmds[i].cmd \in {"ip netns del", "systemctl disable"}
           /\ NoUnit(os)
           /\ (Ended /\ exitCode = 0) => Count("systemctl disable", Names(cmds)) = 1
    /\ (prev.action = REMOVE /\ prev.exit = 0 /\ action = REMOVE) =>
           /\ os = start
           /\ IsPrefix(Names(cmds), <<"systemctl disable">>)
           /\ Ended => (exitCode = 0 /\ Names(cmds) = <<"systemctl disable">>)

C11_Witness ==
    /\ prev.action = REMOVE /\ prev.exit = 0 /\ Len(prev.cmds) = 4
    /\ action = REMOVE /\ Ended /\ exitCode = 0 /\ Len(cmds) = 1

\* C12: test on a host without the namespace issues no probe; test on a host
\* with the namespace probes the four targets in list order whichever of
\* them fail; either way the host is unchanged and the process ends with
\* status 0.
C12_DiagnosticsIsolation ==
    action = TEST =>
        /\ os = start
        /\ ~start.ns => cmds = <<>>
        /\ \A i \in DOMAIN cmds :
               /\ i <= Len(targets)
               /\ cmds[i].cmd = "ping"
               /\ cmds[i].args = <<namespace, targets[i]>>
        /\ Ended => exitCode = 0
        /\ (Ended /\ start.ns) => Len(cmds) = Len(targets)

C12_Witness ==
    /\ action = TEST /\ Ended /\ start.ns /\ Len(cmds) = 4
    /\ ~cmds[1].ok /\ cmds[2].ok /\ ~cmds[3].ok /\ cmds[4].ok

\* The unit is installed: the rendered file is in place and enabled.
Installed(o) == o.unitFile = service_content /\ o.enabled

\* C13: installUnit is idempotent.  Whatever the file held before, the write
\* leaves exactly the rendered content; an update that ends normally leaves
\* the unit installed; and an update on a host where the unit is already
\* installed changes nothing of the host at any step: same content, still
\* enabled once.
C13_InstallUnitIdempotent ==
    /\ (action = UPDATE /\ Len(cmds) >= 1) => os.unitFile = service_content
    /\ (action = UPDATE /\ Ended /\ exitCode = 0) => Installed(os)
    /\ (action = UPDATE /\ Installed(start)) => os = start

C13_Witness ==
    /\ action = UPDATE /\ Ended /\ exitCode = 0
    /\ start.unitFile = StaleFile /\ Installed(os)

\* The network part of the host.
Net(o) ==
    [ns |-> o.ns, ifLoc |-> o.ifLoc, ifUp |-> o.ifUp, loUp |-> o.loUp,
     addr |-> o.addr, route |-> o.route]

\* C14: update performs installUnit only: it issues no command but the unit
\* write, daemon-reload and enable, in that order, and leaves the namespace,
\* the interface, the address and the route as they were.
C14_UpdateInstallsOnly ==
    action = UPDATE =>
        /\ Net(os) = Net(start)
        /\ IsPrefix(Names(cmds), StepsF)
        /\ (Ended /\ exitCode = 0) => Names(cmds) = StepsF

C14_Witness ==
    /\ action = UPDATE /\ Ended /\ exitCode = 0
    /\ Converged(start) /\ Names(cmds) = StepsF

\* The ten verbs of the dispatcher.
Verbs == {ADD, FORCEADD, UPDATE, REMOVE, STATUS, RESTART, RELOAD, TEST, TEST2, INSTALL}

\* The upper-case form of the letters the verbs are written with.
UpperChar(ch) ==
    CASE ch = "a" -> "A" [] ch = "c" -> "C" [] ch = "d" -> "D" [] ch = "e" -> "E"
      [] ch = "f" -> "F" [] ch = "i" -> "I" [] ch = "l" -> "L" [] ch = "m" -> "M"
      [] ch = "n" -> "N" [] ch = "o" -> "O" [] ch = "p" -> "P" [] ch = "r" -> "R"
      [] ch = "s" -> "S" [] ch = "t" -> "T" [] ch = "u" -> "U" [] ch = "v" -> "V"
      [] OTHER -> ch

\* x is the verb v written in any mix of upper and lower case.
EqIgnoreCase(x, v) ==
    /\ Len(x) = Len(v)
    /\ \A i \in DOMAIN v : x[i] = v[i] \/ x[i] = UpperChar(v[i])

\* A process has been started.
Started == ~(pc = "idle" /\ exitCode = -1)

\* The process ended with status 1 without running a command.
Rejected == pc = "idle" /\ exitCode = 1 /\ cmds = <<>> /\ os = start

\* C15: without privilege the process ends with status 1 before any verb is
\* dispatched and before any command, whatever the arguments; with
\* privilege, a missing verb or one that is none of the ten verbs in any
\* letter case ends the process with status 1 before any command, and a
\* verb written in any letter case is taken as that verb.
C15_DispatchGuards ==
    Started =>
        /\ invoked.euid # 0 => (Rejected /\ action = <<>>)
        /\ (invoked.euid = 0 /\ invoked.argv = <<>>) => Rejected
        /\ (invoked.euid = 0 /\ invoked.argv # <<>>) =>
               /\ (\A v \in Verbs : ~EqIgnoreCase(invoked.argv[1], v)) => Rejected
               /\ \A v \in Verbs : EqIgnoreCase(invoked.argv[1], v) => action = v

C15_Witness ==
    /\ invoked = [euid |-> 1000, argv |-> <<FORCEADD>>]
    /\ Rejected /\ Converged(start)

\* The command lines of a run, without their results.
Lines(log) == [i \in DOMAIN log |-> Cmd(log[i].cmd, log[i].args)]

\* C16: the start-up commands rendered into the unit are, in order and with
\* the same configuration values, the commands converge(force=false) issues
\* on a clean host: what add has issued on a clean host is always a prefix
\* of add's converge commands followed by installUnit's, and when converge
\* returns it has issued exactly the unit's list.
C16_UnitReplicatesConverge ==
    (action = ADD /\ Clean(start)) =>
        /\ Len(cmds) <= Len(service_content) => IsPrefix(Lines(cmds), service_content)
        /\ Len(cmds) >= Len(service_content) =>
               SubSeq(Lines(cmds), 1, Len(service_content)) = service_content
        /\ pc = "cs_write" => Lines(cmds) = service_content

C16_Witness ==
    /\ action = ADD /\ Clean(start) /\ pc = "cs_write"
    /\ \A i \in DOMAIN cmds : cmds[i].ok

\* The verbs whose call sequence contains converge.
ConvergeVerbs == {ADD, FORCEADD, RESTART}

\* C17: whenever converge returns normally (for these verbs control is at
\* the unit write only then), from any host and for either force, the
\* namespace exists, the interface is inside it and the address is assigned.
C17_ConvergePostcondition ==
    (action \in ConvergeVerbs /\ pc = "cs_write") => Converged(os)

C17_Witness ==
    /\ action = FORCEADD /\ pc = "cs_write"
    /\ start.ns /\ ~start.addr /\ Count("ip netns del", Names(cmds)) = 1
    /\ Converged(os)

\* This step issues command c.
Issues(c) == Len(cmds') = Len(cmds) + 1 /\ cmds'[Len(cmds')].cmd = c

\* Both bring-up commands have been issued, and succeeded, in this run.
BroughtUp ==
    \E i, j \in DOMAIN cmds :
        /\ i < j
        /\ cmds[i].cmd = "ip link set up" /\ cmds[i].ok
        /\ cmds[j].cmd = "ip link set lo up" /\ cmds[j].ok

\* C18: the interface move is issued only while the namespace exists; the
\* commands run inside the namespace (interface up, loopback up, address
\* add, route add) are issued only while the namespace exists and the
\* interface is inside it; address add and route add are issued only after
\* both bring-up commands.
C18_StepOrdering ==
    [][ /\ Issues("ip link set netns") => os.ns
        /\ \A c \in {"ip link set up", "ip link set lo up", "ip addr add",
                     "ip route add"} :
               Issues(c) => (os.ns /\ os.ifLoc = "Target")
        /\ \A c \in {"ip addr add", "ip route add"} : Issues(c) => BroughtUp ]_vars

C18_Witness ==
    /\ action = RESTART /\ pc = "cs_write" /\ start.ns /\ start.ifLoc = "Target"
    /\ Count("ip link set netns", Names(cmds)) = 1
    /\ Count("ip addr add", Names(cmds)) = 1

\* The commands of installUnit that change the host.
InstallCmds == {"write unit", "systemctl enable"}

\* C19: in add, force-add and restart the unit is written and enabled only
\* after converge has run to its end with no checked command failing; a run
\* that ends before converge's last command has neither written the unit
\* file nor enabled the unit.
C19_InstallOnlyAfterConverge ==
    action \in ConvergeVerbs =>
        /\ \A i \in DOMAIN cmds :
               cmds[i].cmd \in InstallCmds =>
                   /\ \E j \in 1..(i - 1) : cmds[j].cmd = "ip route add"
                   /\ \A j \in 1..(i - 1) :
                          (cmds[j].check /\ cmds[j].cmd \in MutatingCmds) => cmds[j].ok
        /\ (Ended /\ Count("ip route add", Names(cmds)) = 0) =>
               /\ exitCode = 1
               /\ os.unitFile \in {start.unitFile, NoFile}
               /\ os.enabled => start.enabled

C19_Witness ==
    /\ action = ADD /\ Ended /\ exitCode = 1 /\ Len(cmds) = 5
    /\ cmds[5].cmd = "ip addr add" /\ ~cmds[5].ok
    /\ NoUnit(start) /\ NoUnit(os)

====
